---- MODULE Spec2Model ----
(***************************************************************************)
(* typemark: the .mdt parser (packages/typemark/src/parser.ts), the        *)
(* compiler (compiler.ts), the declaration generator (codegen.ts) and the  *)
(* watch mode of the command line (cli.ts).                                *)
(*                                                                         *)
(* Text is a sequence of one-character strings.  Positions are 0-based as  *)
(* in the source; slice(s, a, b) is the half-open range [a, b).            *)
(* A function that throws is an operator returning a record whose field    *)
(* err holds the message of the Error ("" when it returns normally).       *)
(***************************************************************************)
EXTENDS Integers, Sequences, FiniteSets, TLC

VARIABLES
  source,    \* the text handed to parse
  pc,        \* "ready" before the call of parse, then "returned" or "thrown"
  result,    \* <<the ParsedTemplate>> once returned, <<>> otherwise
  error,     \* the message of the Error once thrown, "" otherwise
  history,   \* the earlier calls of parse in this run, oldest first
  template,  \* <<outcome of compile(parsed)>> once called, <<>> before
  module,    \* <<outcome of compileToString(parsed)>> once called, <<>> before
  dts,       \* <<outcome of generateDts(parsed)>> once called, <<>> before
  loaded,    \* <<outcome of evaluating the module text>> once evaluated
  rendered,  \* <<the two render outcomes on one property bag>> once rendered
  fs,        \* watch mode: the files under the watched directory
  events,    \* watch mode: the file-change events raised so far, oldest first
  tasks,     \* watch mode: the invocations of the watch callback, one per
             \* event delivered so far, in the order of the events
  log        \* watch mode: the lines written to the console, oldest first

callVars == <<source, pc, result, error>>

stageVars == <<template, module, dts, loaded, rendered>>

watchVars == <<fs, events, tasks, log>>

vars == <<source, pc, result, error, history, template, module, dts, loaded,
          rendered, fs, events, tasks, log>>

(***************************************************************************)
(* Bounds of the input families.                                           *)
(***************************************************************************)
MaxFrags == 5

MaxPropsFrags == 5

MaxKeyLines == 4

MaxFmLines == 4

MaxBodyFrags == 3

MaxCalls == 3

MaxStageLines == 2

MaxErrFrags == 5

MaxEvents == 3

(***************************************************************************)
(* Character classes of the host language.                                 *)
(***************************************************************************)
\* the white space that String.prototype.trim removes and \s matches
WhiteSpace == {" ", "\t", "\n", "\r"}

\* the class \w of the regular expressions
WordChars ==
  {"a","b","c","d","e","f","g","h","i","j","k","l","m","n","o","p","q","r","s","t",
   "u","v","w","x","y","z","A","B","C","D","E","F","G","H","I","J","K","L","M","N",
   "O","P","Q","R","S","T","U","V","W","X","Y","Z","0","1","2","3","4","5","6","7",
   "8","9","_"}

(***************************************************************************)
(* String primitives.                                                      *)
(***************************************************************************)
\* s.slice(a, b)
slice(s, a, b) == SubSeq(s, a + 1, b)

\* s.slice(a)
sliceFrom(s, a) == SubSeq(s, a + 1, Len(s))

\* does pat occur in s at position i
occursAt(s, pat, i) ==
  /\ i + Len(pat) <= Len(s)
  /\ SubSeq(s, i + 1, i + Len(pat)) = pat

\* s.startsWith(pat)
startsWith(s, pat) == occursAt(s, pat, 0)

RECURSIVE indexOf(_, _, _)
\* s.indexOf(pat, from): the first position >= from where pat occurs, or -1
indexOf(s, pat, from) ==
  IF from + Len(pat) > Len(s) THEN -1
  ELSE IF occursAt(s, pat, from) THEN from
  ELSE indexOf(s, pat, from + 1)

RECURSIVE skipSpaceLeft(_, _)
\* the first position >= i holding no white space (Len(s) when there is none)
skipSpaceLeft(s, i) ==
  IF i < Len(s) /\ s[i + 1] \in WhiteSpace THEN skipSpaceLeft(s, i + 1) ELSE i

RECURSIVE skipSpaceRight(_, _, _)
\* the end of s[lo .. hi) once its trailing white space is dropped
skipSpaceRight(s, lo, hi) ==
  IF hi > lo /\ s[hi] \in WhiteSpace THEN skipSpaceRight(s, lo, hi - 1) ELSE hi

\* s.trim()
trim(s) ==
  LET a == skipSpaceLeft(s, 0)
  IN  slice(s, a, skipSpaceRight(s, a, Len(s)))

RECURSIVE split(_, _)
\* s.split(sep) for a one-character separator
split(s, sep) ==
  LET k == indexOf(s, <<sep>>, 0)
  IN  IF k = -1 THEN <<s>>
      ELSE <<slice(s, 0, k)>> \o split(sliceFrom(s, k + 1), sep)

(***************************************************************************)
(* parser.ts                                                               *)
(***************************************************************************)
FRONTMATTER_DELIMITER == <<"-","-","-">>

ErrNoOpening == "Missing frontmatter: no opening --- found"
ErrNoClosing == "Missing frontmatter: no closing --- found"
ErrNoProps   == "Missing interface Props { ... } in frontmatter"
ErrNoBrace   == "Missing opening { for Props interface"
ErrUnmatched == "Unmatched { in Props interface"

\* a thrown Error
Throw(msg) == [err |-> msg]

\* splitFrontmatter looking for the closing delimiter one character after the start
\* of the opening one, so that the two may overlap
splitFrontmatter_overlap(src) ==
  LET firstIndex  == indexOf(src, FRONTMATTER_DELIMITER, 0)
      afterFirst  == firstIndex + Len(FRONTMATTER_DELIMITER)
      secondIndex == indexOf(src, FRONTMATTER_DELIMITER, firstIndex + 1)
  IN  IF firstIndex = -1 THEN Throw(ErrNoOpening)
      ELSE IF secondIndex = -1 THEN Throw(ErrNoClosing)
      ELSE [err |-> "",
            frontmatter |-> trim(slice(src, afterFirst, secondIndex)),
            body |-> trim(sliceFrom(src, secondIndex + Len(FRONTMATTER_DELIMITER)))]

\* splitFrontmatter stripping only the first leading newline of the body, as its
\* doc comment has it, instead of trimming it
splitFrontmatter_firstNewline(src) ==
  LET firstIndex  == indexOf(src, FRONTMATTER_DELIMITER, 0)
      afterFirst  == firstIndex + Len(FRONTMATTER_DELIMITER)
      secondIndex == indexOf(src, FRONTMATTER_DELIMITER, afterFirst)
      rest        == sliceFrom(src, secondIndex + Len(FRONTMATTER_DELIMITER))
  IN  IF firstIndex = -1 THEN Throw(ErrNoOpening)
      ELSE IF secondIndex = -1 THEN Throw(ErrNoClosing)
      ELSE [err |-> "",
            frontmatter |-> trim(slice(src, afterFirst, secondIndex)),
            body |-> IF startsWith(rest, <<"\n">>) THEN sliceFrom(rest, 1) ELSE rest]

splitFrontmatter(src) ==
  LET firstIndex  == indexOf(src, FRONTMATTER_DELIMITER, 0)
      afterFirst  == firstIndex + Len(FRONTMATTER_DELIMITER)
      secondIndex == indexOf(src, FRONTMATTER_DELIMITER, afterFirst)
  IN  IF firstIndex = -1 THEN Throw(ErrNoOpening)
      ELSE IF secondIndex = -1 THEN Throw(ErrNoClosing)
      ELSE [err |-> "",
            frontmatter |-> trim(slice(src, afterFirst, secondIndex)),
            body |-> trim(sliceFrom(src, secondIndex + Len(FRONTMATTER_DELIMITER)))]

RECURSIVE trimAll(_)
\* .map((line) => line.trim())
trimAll(lines) ==
  IF lines = <<>> THEN <<>> ELSE <<trim(Head(lines))>> \o trimAll(Tail(lines))

ImportPrefix == <<"i","m","p","o","r","t"," ","t","y","p","e">>

isImportLine(line) == startsWith(line, ImportPrefix)

\* extractImports testing and keeping the lines as they are, untrimmed
extractImports_noTrim(frontmatter) ==
  SelectSeq(split(frontmatter, "\n"), isImportLine)

extractImports(frontmatter) ==
  SelectSeq(trimAll(split(frontmatter, "\n")), isImportLine)

RECURSIVE braceWalk(_, _, _)
\* the while loop shared by extractPreamble and extractPropsBody: from position i
\* at depth d, returns <<i, depth>> as the loop leaves them
braceWalk(s, i, d) ==
  IF i < Len(s) /\ d > 0
  THEN braceWalk(s, i + 1,
                 IF s[i + 1] = "{" THEN d + 1
                 ELSE IF s[i + 1] = "}" THEN d - 1 ELSE d)
  ELSE <<i, d>>

PropsMarker == <<"i","n","t","e","r","f","a","c","e"," ","P","r","o","p","s">>

\* extractPropsBody defaulting to an empty body when there is no marker
extractPropsBody_default(frontmatter) ==
  LET markerIndex == indexOf(frontmatter, PropsMarker, 0)
      openBrace   == indexOf(frontmatter, <<"{">>, markerIndex + Len(PropsMarker))
      w           == braceWalk(frontmatter, openBrace + 1, 1)
  IN  IF markerIndex = -1 THEN [err |-> "", propsBody |-> <<>>]
      ELSE IF openBrace = -1 THEN Throw(ErrNoBrace)
      ELSE IF w[2] # 0 THEN Throw(ErrUnmatched)
      ELSE [err |-> "", propsBody |-> trim(slice(frontmatter, openBrace + 1, w[1] - 1))]

\* extractPropsBody without the depth check after the walk
extractPropsBody_nocheck(frontmatter) ==
  LET markerIndex == indexOf(frontmatter, PropsMarker, 0)
      openBrace   == indexOf(frontmatter, <<"{">>, markerIndex + Len(PropsMarker))
      w           == braceWalk(frontmatter, openBrace + 1, 1)
  IN  IF markerIndex = -1 THEN Throw(ErrNoProps)
      ELSE IF openBrace = -1 THEN Throw(ErrNoBrace)
      ELSE [err |-> "", propsBody |-> trim(slice(frontmatter, openBrace + 1, w[1] - 1))]

\* extractPropsBody ending the body at the last } of the frontmatter
extractPropsBody_lastBrace(frontmatter) ==
  LET markerIndex == indexOf(frontmatter, PropsMarker, 0)
      openBrace   == indexOf(frontmatter, <<"{">>, markerIndex + Len(PropsMarker))
      w           == braceWalk(frontmatter, openBrace + 1, 1)
      closing     == {i \in 0..(Len(frontmatter) - 1) : frontmatter[i + 1] = "}"}
      lastBrace   == CHOOSE i \in closing : \A j \in closing : j <= i
  IN  IF markerIndex = -1 THEN Throw(ErrNoProps)
      ELSE IF openBrace = -1 THEN Throw(ErrNoBrace)
      ELSE IF w[2] # 0 THEN Throw(ErrUnmatched)
      ELSE [err |-> "",
            propsBody |-> trim(slice(frontmatter, openBrace + 1, lastBrace))]

extractPropsBody(frontmatter) ==
  LET markerIndex == indexOf(frontmatter, PropsMarker, 0)
      openBrace   == indexOf(frontmatter, <<"{">>, markerIndex + Len(PropsMarker))
      w           == braceWalk(frontmatter, openBrace + 1, 1)
  IN  IF markerIndex = -1 THEN Throw(ErrNoProps)
      ELSE IF openBrace = -1 THEN Throw(ErrNoBrace)
      ELSE IF w[2] # 0 THEN Throw(ErrUnmatched)
      ELSE [err |-> "", propsBody |-> trim(slice(frontmatter, openBrace + 1, w[1] - 1))]

RECURSIVE wordEnd(_, _)
\* the end of the run of \w characters that starts at position i
wordEnd(s, i) ==
  IF i < Len(s) /\ s[i + 1] \in WordChars THEN wordEnd(s, i + 1) ELSE i

KwInterface == <<"i","n","t","e","r","f","a","c","e">>
KwType      == <<"t","y","p","e">>
NameProps   == <<"P","r","o","p","s">>

\* /(?:interface|type)\s+(?!Props\b)(\w+)/ tried at position p: the end of the
\* match, or -1.  \s+ is greedy and must stop before a \w, so only the whole run
\* of white space can be followed by (\w+); the lookahead is tested there.
patternEnd(s, p) ==
  LET kw == IF occursAt(s, KwInterface, p) THEN Len(KwInterface)
            ELSE IF occursAt(s, KwType, p) THEN Len(KwType) ELSE 0
      q  == p + kw
      r  == skipSpaceLeft(s, q)
      isProps == /\ occursAt(s, NameProps, r)
                 /\ \/ r + Len(NameProps) = Len(s)
                    \/ s[r + Len(NameProps) + 1] \notin WordChars
  IN  IF kw > 0 /\ r > q /\ r < Len(s) /\ s[r + 1] \in WordChars /\ ~isProps
      THEN wordEnd(s, r) ELSE -1

RECURSIVE matchAll(_, _)
\* frontmatter.matchAll(pattern) from lastIndex on: the start of every match
matchAll(s, lastIndex) ==
  IF lastIndex >= Len(s) THEN <<>>
  ELSE IF patternEnd(s, lastIndex) # -1
       THEN <<lastIndex>> \o matchAll(s, patternEnd(s, lastIndex))
       ELSE matchAll(s, lastIndex + 1)

\* the body of the for loop of extractPreamble: what one match pushes
declarationAt(frontmatter, start) ==
  IF startsWith(sliceFrom(frontmatter, start), KwInterface)
  THEN LET openBrace == indexOf(frontmatter, <<"{">>, start)
           w == braceWalk(frontmatter, openBrace + 1, 1)
       IN  IF openBrace = -1 THEN <<>>
           ELSE <<trim(slice(frontmatter, start, w[1]))>>
  ELSE LET end == indexOf(frontmatter, <<"\n">>, start)
       IN  <<trim(slice(frontmatter, start,
                        IF end = -1 THEN Len(frontmatter) ELSE end))>>

RECURSIVE declarationsOf(_, _)
declarationsOf(frontmatter, starts) ==
  IF starts = <<>> THEN <<>>
  ELSE declarationAt(frontmatter, Head(starts))
         \o declarationsOf(frontmatter, Tail(starts))

\* one pattern object for all the calls: each scan starts where the calls made
\* so far have left lastIndex
extractPreamble_sharedPattern(frontmatter) ==
  declarationsOf(frontmatter, matchAll(frontmatter, Len(history)))

extractPreamble(frontmatter) ==
  declarationsOf(frontmatter, matchAll(frontmatter, 0))

\* trimmed.match(/^(\w+)\s*[?]?\s*:/): <<the captured name>>, or <<>>
keyMatch(trimmed) ==
  LET n == wordEnd(trimmed, 0)
      a == skipSpaceLeft(trimmed, n)
      b == IF a < Len(trimmed) /\ trimmed[a + 1] = "?" THEN a + 1 ELSE a
      c == skipSpaceLeft(trimmed, b)
  IN  IF n > 0 /\ c < Len(trimmed) /\ trimmed[c + 1] = ":"
      THEN <<slice(trimmed, 0, n)>> ELSE <<>>

RECURSIVE braceDepth(_, _)
\* the inner for loop of extractPropKeys: depth after the characters of text
braceDepth(text, depth) ==
  IF text = <<>> THEN depth
  ELSE braceDepth(Tail(text),
                  IF Head(text) = "{" THEN depth + 1
                  ELSE IF Head(text) = "}" THEN depth - 1 ELSE depth)

\* the keys one line adds at the depth it starts at
lineKeys(trimmed, depth) ==
  IF depth = 0 THEN keyMatch(trimmed) ELSE <<>>

RECURSIVE propKeysLoop(_, _)
\* the outer for loop of extractPropKeys over the remaining lines
propKeysLoop(lines, depth) ==
  IF lines = <<>> THEN <<>>
  ELSE LET trimmed == trim(Head(lines))
       IN  IF trimmed = <<>> THEN propKeysLoop(Tail(lines), depth)
           ELSE lineKeys(trimmed, depth)
                  \o propKeysLoop(Tail(lines), braceDepth(trimmed, depth))

extractPropKeys(propsBody) == propKeysLoop(split(propsBody, "\n"), 0)

RECURSIVE depthsLoop(_, _)
\* the values of depth in the outer for loop of extractPropKeys: one at the
\* start of every remaining line, and the one the loop ends with
depthsLoop(lines, depth) ==
  IF lines = <<>> THEN <<depth>>
  ELSE LET trimmed == trim(Head(lines))
       IN  <<depth>>
             \o depthsLoop(Tail(lines),
                           IF trimmed = <<>> THEN depth
                           ELSE braceDepth(trimmed, depth))

\* the depth counter of extractPropKeys over the lines of propsBody
propKeysDepths(propsBody) == depthsLoop(split(propsBody, "\n"), 0)

parse(src) ==
  LET sf == splitFrontmatter(src)
  IN  IF sf.err # "" THEN Throw(sf.err)
      ELSE LET imports  == extractImports(sf.frontmatter)
               preamble == extractPreamble(sf.frontmatter)
               pb       == extractPropsBody(sf.frontmatter)
           IN  IF pb.err # "" THEN Throw(pb.err)
               ELSE [err |-> "",
                     value |-> [imports   |-> imports,
                                preamble  |-> preamble,
                                propsBody |-> pb.propsBody,
                                body      |-> sf.body,
                                propKeys  |-> extractPropKeys(pb.propsBody)]]

(***************************************************************************)
(* The state machine: one call of parse on a source text.                  *)
(*   source  the text handed to parse                                      *)
(*   pc      "ready" before the call, then "returned" or "thrown"          *)
(*   result  <<the ParsedTemplate>> once returned, <<>> otherwise          *)
(*   error   the message of the Error once thrown, "" otherwise            *)
(***************************************************************************)
Parse ==
  /\ pc = "ready"
  /\ LET r == parse(source)
     IN  IF r.err = ""
         THEN /\ pc' = "returned"
              /\ result' = <<r.value>>
              /\ error' = ""
         ELSE /\ pc' = "thrown"
              /\ result' = <<>>
              /\ error' = r.err
  /\ UNCHANGED <<source, history, stageVars, watchVars>>

Next == Parse

InitOn(sources) ==
  /\ source \in sources
  /\ pc = "ready"
  /\ result = <<>>
  /\ error = ""
  /\ history = <<>>
  /\ template = <<>> /\ module = <<>> /\ dts = <<>>
  /\ loaded = <<>> /\ rendered = <<>>
  /\ fs = <<>> /\ events = <<>> /\ tasks = <<>> /\ log = <<>>

(***************************************************************************)
(* Input families.                                                         *)
(***************************************************************************)
Sp == <<" ">>
Nl == <<"\n">>

RECURSIVE concatsOf(_, _)
\* every concatenation of at most n texts of frags
concatsOf(frags, n) ==
  IF n = 0 THEN {<<>>}
  ELSE LET shorter == concatsOf(frags, n - 1)
       IN  shorter \cup {s \o f : s \in shorter, f \in frags}

RECURSIVE joinLines(_)
\* lines.join("\n")
joinLines(lines) ==
  IF lines = <<>> THEN <<>>
  ELSE IF Len(lines) = 1 THEN Head(lines)
  ELSE Head(lines) \o Nl \o joinLines(Tail(lines))

\* every text of at most n lines drawn from opts
linesOf(opts, n) ==
  {joinLines(ls) : ls \in UNION {[1..k -> opts] : k \in 0..n}}

\* delimiters, dashes, white space and body text around a complete frontmatter
DelimFrags ==
  { FRONTMATTER_DELIMITER,
    <<"-">>,
    Nl,
    Sp,
    <<"x"," ","y">>,
    FRONTMATTER_DELIMITER \o PropsMarker \o <<"{","a",":","b","}">> \o Nl }

DelimSources == concatsOf(DelimFrags, MaxFrags)

\* frontmatters built from the Props marker, braces, a property and a second
\* interface whose name starts with Props
PropsFrags ==
  { PropsMarker,
    <<"{">>,
    <<"}">>,
    <<" ","a",":","b"," ">>,
    PropsMarker \o <<"X","{","c",":","d","}">> }

PropsSources ==
  { FRONTMATTER_DELIMITER \o Nl \o f \o Nl \o FRONTMATTER_DELIMITER \o <<"\n","x">> :
      f \in concatsOf(PropsFrags, MaxPropsFrags) }

\* lines of a Props body
KeyLines ==
  { <<"a",":"," ","x",";">>,
    <<"b","?",":"," ","x">>,
    <<" ","c"," ","?"," ",":"," ","{">>,
    <<"d",":"," ","{">>,
    <<"}">>,
    <<"}"," ","}">>,
    <<"g",":"," ","x",";"," ","h",":"," ","{">>,
    <<"u",":"," ","{"," ","v",":"," ","x"," ","}"," ","k","?",":"," ","y">> }

KeySources ==
  { FRONTMATTER_DELIMITER \o Nl \o PropsMarker \o <<" ","{","\n">> \o b
      \o <<"\n","}","\n">> \o FRONTMATTER_DELIMITER \o <<"\n","x">> :
      b \in linesOf(KeyLines, MaxKeyLines) }

\* lines of a frontmatter
FmLines ==
  { ImportPrefix \o <<" ","{","U","}"," ","f","r","o","m"," ","u">>,
    Sp \o ImportPrefix \o <<" ","V"," ","f","r","o","m"," ","v"," ">>,
    <<"x"," ">> \o ImportPrefix \o <<";">>,
    PropsMarker \o <<" ","{","a",":"," ","x","}">>,
    KwInterface \o <<" ","F","o","o"," ","{","b",":"," ","y","}">>,
    KwInterface \o <<" ","B","a","r"," ","{">>,
    <<"}">>,
    KwType \o <<" ","T"," ","="," ","x">> }

FmSources ==
  { FRONTMATTER_DELIMITER \o Nl \o f \o Nl \o FRONTMATTER_DELIMITER \o <<"\n","x">> :
      f \in linesOf(FmLines, MaxFmLines) }

Init == InitOn(DelimSources)

InitProps == InitOn(PropsSources)

InitKeys == InitOn(KeySources)

InitFm == InitOn(FmSources)

Spec == Init /\ [][Next]_vars

SpecProps == InitProps /\ [][Next]_vars

SpecKeys == InitKeys /\ [][Next]_vars

SpecFm == InitFm /\ [][Next]_vars

(***************************************************************************)
(* The host language, as far as the code the compiler emits needs it:      *)
(* new Function(...) on a function body made of an optional destructuring  *)
(* `const { k, ... } = props;` and a `return` of template literals, and    *)
(* the evaluation of a template literal.  Inside ${ } the model knows one  *)
(* form of expression, an identifier; anything else is a SyntaxError, which*)
(* is what the host answers for every body of the families below (their    *)
(* alphabet holds no operator, no `;`, no `}` of its own and no escape     *)
(* letter other than n, r, t).                                             *)
(*   a template is a sequence of parts [expr |-> BOOLEAN, text |-> ...]:   *)
(*   the cooked text of a span, or the identifier of a substitution        *)
(***************************************************************************)
\* the character U+0060 (the grave accent that delimits a template literal),
\* which no string of this notation can hold
Backtick == "U+0060"

SyntaxError == "SyntaxError"
ReferenceError == "ReferenceError"
TypeError == "TypeError"

\* the characters of an IdentifierName
IdentifierChars == WordChars \cup {"$"}

Digits == {"0","1","2","3","4","5","6","7","8","9"}

RECURSIVE identifierEnd(_, _)
\* the end of the run of identifier characters that starts at position i
identifierEnd(s, i) ==
  IF i < Len(s) /\ s[i + 1] \in IdentifierChars THEN identifierEnd(s, i + 1)
  ELSE i

\* the position after lit when lit stands at position i, else -1
expect(s, i, lit) == IF i >= 0 /\ occursAt(s, lit, i) THEN i + Len(lit) ELSE -1

\* the position after lit, white space before it skipped, else -1
expectToken(s, i, lit) ==
  IF i < 0 THEN -1 ELSE expect(s, skipSpaceLeft(s, i), lit)

\* the cooked value of the character escape \c
cookedEscape(c) ==
  IF c = "n" THEN <<"\n">>
  ELSE IF c = "r" THEN <<"\r">>
  ELSE IF c = "t" THEN <<"\t">>
  ELSE <<c>>

RECURSIVE templateSpan(_, _, _, _)
\* the characters of a template literal from position i (after its opening
\* backtick): [end |-> the position after the closing backtick, or -1 for a
\* SyntaxError, parts |-> the template].  cur is the cooked text of the span
\* being read.  A line break written as CR or CR LF is cooked as LF; a
\* backslash before a line break continues the line.
templateSpan(s, i, cur, parts) ==
  IF i >= Len(s) THEN [end |-> -1, parts |-> <<>>]
  ELSE
    LET c == s[i + 1]
        crlf(j) == IF j + 1 < Len(s) /\ s[j + 1] = "\r" /\ s[j + 2] = "\n"
                   THEN 2 ELSE 1
    IN  IF c = Backtick
        THEN [end |-> i + 1,
              parts |-> parts \o <<[expr |-> FALSE, text |-> cur]>>]
        ELSE IF c = "\\"
        THEN IF i + 1 >= Len(s) THEN [end |-> -1, parts |-> <<>>]
             ELSE IF s[i + 2] \in {"\n", "\r"}
             THEN templateSpan(s, i + 1 + crlf(i + 1), cur, parts)
             ELSE templateSpan(s, i + 2, cur \o cookedEscape(s[i + 2]), parts)
        ELSE IF c = "$" /\ i + 1 < Len(s) /\ s[i + 2] = "{"
        THEN LET a == skipSpaceLeft(s, i + 2)
                 b == identifierEnd(s, a)
                 e == expectToken(s, b, <<"}">>)
             IN  IF b = a \/ s[a + 1] \in Digits \/ e = -1
                 THEN [end |-> -1, parts |-> <<>>]
                 ELSE templateSpan(s, e, <<>>,
                        parts \o <<[expr |-> FALSE, text |-> cur],
                                   [expr |-> TRUE, text |-> slice(s, a, b)]>>)
        ELSE IF c = "\r"
        THEN templateSpan(s, i + crlf(i), cur \o <<"\n">>, parts)
        ELSE templateSpan(s, i + 1, cur \o <<c>>, parts)

RECURSIVE templateChain(_, _, _)
RECURSIVE chainAfter(_, _, _)
\* the chain of template literals that goes on after the template literal t:
\* [end, templates]
chainAfter(s, t, templates) ==
  IF t.end = -1 THEN [end |-> -1, templates |-> <<>>]
  ELSE templateChain(s, t.end, Append(templates, t.parts))

\* one template literal or more in a row from position i (a template literal
\* that follows an expression directly is a tagged template):
\* [end, templates]
templateChain(s, i, templates) ==
  LET a == expectToken(s, i, <<Backtick>>)
  IN  IF a = -1
      THEN [end |-> IF templates = <<>> THEN -1 ELSE i, templates |-> templates]
      ELSE chainAfter(s, templateSpan(s, a, <<>>, <<>>), templates)

RECURSIVE bindingList(_, _, _)
\* the names of `k1, k2, ... }` from position i: [end, keys]
bindingList(s, i, keys) ==
  LET a == skipSpaceLeft(s, i)
      b == identifierEnd(s, a)
      k == slice(s, a, b)
      comma == expectToken(s, b, <<",">>)
      close == expectToken(s, b, <<"}">>)
  IN  IF b = a \/ s[a + 1] \in Digits THEN [end |-> -1, keys |-> <<>>]
      ELSE IF comma # -1 THEN bindingList(s, comma, Append(keys, k))
      ELSE [end |-> close, keys |-> Append(keys, k)]

\* ` = props;` after the binding list b: [end, keys].  Declaring a name
\* twice, or the parameter props again, is a SyntaxError.
bindingEnd(s, b) ==
  LET e == expectToken(s, expectToken(s, expectToken(s, b.end, <<"=">>),
                                      <<"p","r","o","p","s">>), <<";">>)
      twice == \E m, n \in 1..Len(b.keys) : m # n /\ b.keys[m] = b.keys[n]
      param == \E m \in 1..Len(b.keys) : b.keys[m] = <<"p","r","o","p",
                                                       "s">>
  IN  IF b.end = -1 \/ e = -1 \/ twice \/ param
      THEN [end |-> -1, keys |-> <<>>]
      ELSE [end |-> e, keys |-> b.keys]

\* `const { k1, k2, ... } = props;` at position i, if a `const` stands there:
\* [end, keys]
destructuring(s, i) ==
  LET a == expectToken(s, i, <<"c","o","n","s","t">>)
  IN  IF a = -1 THEN [end |-> i, keys |-> <<>>]
      ELSE IF expectToken(s, a, <<"{">>) = -1 THEN [end |-> -1, keys |-> <<>>]
      ELSE bindingEnd(s, bindingList(s, expectToken(s, a, <<"{">>), <<>>))

\* the `;` after the templates t of the return statement, the destructuring
\* d before it: [end, keys, templates]
returnEnd(s, d, t) ==
  LET e == expectToken(s, t.end, <<";">>)
  IN  IF e = -1 THEN [end |-> -1, keys |-> <<>>, templates |-> <<>>]
      ELSE [end |-> e, keys |-> d.keys, templates |-> t.templates]

\* `return` and its template literals after the destructuring d
returnStatement(s, d) ==
  returnEnd(s, d,
    templateChain(s, expectToken(s, d.end, <<"r","e","t","u","r","n">>),
                  <<>>))

\* the statements of a render function from position i:
\* [end, keys, templates]
renderStatements(s, i) == returnStatement(s, destructuring(s, i))

\* the scope of new Function: the global object, which holds none of the names
\* a template uses
GlobalScope == <<>>

\* the function of the statements f when they are all of fnBody, or a
\* SyntaxError
functionOf(fnBody, f) ==
  IF f.end = -1 \/ skipSpaceLeft(fnBody, f.end) # Len(fnBody)
  THEN Throw(SyntaxError)
  ELSE [err |-> "", fn |-> [keys |-> f.keys, templates |-> f.templates,
                            scope |-> GlobalScope]]

\* new Function("props", fnBody): the function, or a SyntaxError
newFunction(fnBody) == functionOf(fnBody, renderStatements(fnBody, 0))

\* the names a render function sees when called on bag, with the text ToString
\* gives for each: a destructured key is the field of the bag (undefined when
\* the bag has none), props is the bag itself, and the names of the scope the
\* function was made in stay visible behind them
renderScope(fn, bag) ==
  LET keys == {fn.keys[m] : m \in 1..Len(fn.keys)}
  IN  [name \in keys \cup {<<"p","r","o","p","s">>} \cup DOMAIN fn.scope |->
         IF name \in keys
         THEN IF name \in DOMAIN bag THEN bag[name] ELSE <<"u","n","d",
                                                           "e","f","i",
                                                           "n","e","d">>
         ELSE IF name = <<"p","r","o","p","s">> THEN <<"[","o","b","j",
                                                       "e","c","t"," ",
                                                       "O","b","j","e",
                                                       "c","t","]">>
         ELSE fn.scope[name]]

\* the value of an identifier: a name no scope holds is a ReferenceError
valueOf(name, scope) ==
  IF name \in DOMAIN scope THEN [err |-> "", value |-> scope[name]]
  ELSE Throw(ReferenceError)

RECURSIVE evaluateTemplate(_, _)
\* the value of a template literal: its spans and the values of its
\* substitutions, left to right
evaluateTemplate(parts, scope) ==
  IF parts = <<>> THEN [err |-> "", value |-> <<>>]
  ELSE LET p == Head(parts)
           v == IF p.expr THEN valueOf(p.text, scope)
                ELSE [err |-> "", value |-> p.text]
           rest == evaluateTemplate(Tail(parts), scope)
       IN  IF v.err # "" THEN Throw(v.err)
           ELSE IF rest.err # "" THEN Throw(rest.err)
           ELSE [err |-> "", value |-> v.value \o rest.value]

\* the value of a chain of template literals: the first is evaluated, and
\* called as the tag of the second when there is one; a string is no function
evaluateChain(templates, scope) ==
  LET first == evaluateTemplate(templates[1], scope)
  IN  IF first.err # "" THEN Throw(first.err)
      ELSE IF Len(templates) > 1 THEN Throw(TypeError)
      ELSE first

\* fn(bag): a call of a render function
callRender(fn, bag) == evaluateChain(fn.templates, renderScope(fn, bag))

(***************************************************************************)
(* compiler.ts                                                             *)
(***************************************************************************)
RECURSIVE join(_, _)
\* items.join(sep)
join(items, sep) ==
  IF items = <<>> THEN <<>>
  ELSE IF Len(items) = 1 THEN Head(items)
  ELSE Head(items) \o sep \o join(Tail(items), sep)

RECURSIVE replaceAll(_, _, _)
\* s.replace(/pat/g, rep) for a pattern that matches the literal text pat
replaceAll(s, pat, rep) ==
  IF s = <<>> THEN <<>>
  ELSE IF startsWith(s, pat)
       THEN rep \o replaceAll(sliceFrom(s, Len(pat)), pat, rep)
       ELSE <<Head(s)>> \o replaceAll(Tail(s), pat, rep)

\* return { render, raw: body }, once new Function has not thrown
templateOf(renderFn, body) ==
  IF renderFn.err # "" THEN Throw(renderFn.err)
  ELSE [err |-> "", render |-> renderFn.fn, raw |-> body]

\* compile(parsed): the Template, whose render is the function new Function
\* made; the SyntaxError of new Function is the failure of compile
compile(parsed) ==
  LET propKeys == parsed.propKeys
      body == parsed.body
      destructure ==
        IF Len(propKeys) > 0
        THEN <<"c","o","n","s","t"," ","{"," ">> \o join(propKeys, <<",",
                                                                     " ">>) \o <<
                                                                                 " ",
                                                                                 "}",
                                                                                 " ",
                                                                                 "=",
                                                                                 " ",
                                                                                 "p",
                                                                                 "r",
                                                                                 "o",
                                                                                 "p",
                                                                                 "s",
                                                                                 ";",
                                                                                 " ">>
        ELSE <<>>
      fnBody == destructure \o <<"r","e","t","u","r","n"," ",Backtick>> \o body \o <<
                                                                                     Backtick,
                                                                                     ";">>
  IN  templateOf(newFunction(fnBody), body)

\* the three replacements in another order: backticks and `${` first, the
\* backslashes last
escapedRaw_backslashLast(body) ==
  replaceAll(replaceAll(replaceAll(body, <<Backtick>>, <<"\\",Backtick>>),
                        <<"$","{">>, <<"\\","$","{">>),
             <<"\\">>, <<"\\","\\">>)

\* body.replace(/\\/g, "\\\\").replace(/`/g, "\\`").replace(/\$\{/g, "\\${")
escapedRaw(body) ==
  replaceAll(replaceAll(replaceAll(body, <<"\\">>, <<"\\","\\">>),
                        <<Backtick>>, <<"\\",Backtick>>),
             <<"$","{">>, <<"\\","$","{">>)

\* the destructuring line is pushed whatever propKeys holds
moduleLines_alwaysPrologue(parsed) ==
  <<<<"e","x","p","o","r","t"," ","d","e","f","a","u","l","t"," ","{">>, <<
                                                                           " ",
                                                                           " ",
                                                                           "r",
                                                                           "e",
                                                                           "n",
                                                                           "d",
                                                                           "e",
                                                                           "r",
                                                                           "(",
                                                                           "p",
                                                                           "r",
                                                                           "o",
                                                                           "p",
                                                                           "s",
                                                                           ")",
                                                                           " ",
                                                                           "{">>,
    <<" "," "," "," ","c","o","n","s","t"," ","{"," ">> \o join(parsed.propKeys, <<
                                                                                   ",",
                                                                                   " ">>) \o <<
                                                                                               " ",
                                                                                               "}",
                                                                                               " ",
                                                                                               "=",
                                                                                               " ",
                                                                                               "p",
                                                                                               "r",
                                                                                               "o",
                                                                                               "p",
                                                                                               "s",
                                                                                               ";">>,
    <<" "," "," "," ","r","e","t","u","r","n"," ",Backtick>> \o parsed.body \o <<
                                                                                 Backtick,
                                                                                 ";">>,
    <<" "," ","}",",">>,
    <<" "," ","r","a","w",":"," ",Backtick>> \o escapedRaw(parsed.body) \o <<
                                                                             Backtick>>,
    <<"}",";">>>>

\* the return line of render holds the escaped body, as raw does
moduleLines_escapedRender(parsed) ==
  <<<<"e","x","p","o","r","t"," ","d","e","f","a","u","l","t"," ","{">>, <<
                                                                           " ",
                                                                           " ",
                                                                           "r",
                                                                           "e",
                                                                           "n",
                                                                           "d",
                                                                           "e",
                                                                           "r",
                                                                           "(",
                                                                           "p",
                                                                           "r",
                                                                           "o",
                                                                           "p",
                                                                           "s",
                                                                           ")",
                                                                           " ",
                                                                           "{">>>>
    \o (IF Len(parsed.propKeys) > 0
        THEN <<<<" "," "," "," ","c","o","n","s","t"," ","{"," ">> \o join(parsed.propKeys, <<
                                                                                              ",",
                                                                                              " ">>)
                 \o <<" ","}"," ","="," ","p","r","o","p","s",";">>>>
        ELSE <<>>)
    \o <<<<" "," "," "," ","r","e","t","u","r","n"," ",Backtick>> \o escapedRaw(parsed.body) \o <<
                                                                                                  Backtick,
                                                                                                  ";">>,
         <<" "," ","}",",">>,
         <<" "," ","r","a","w",":"," ",Backtick>> \o escapedRaw(parsed.body) \o <<
                                                                                  Backtick>>,
         <<"}",";">>>>

\* the lines compileToString pushes
moduleLines(parsed) ==
  LET propKeys == parsed.propKeys
      body == parsed.body
      destructure ==
        IF Len(propKeys) > 0
        THEN <<"c","o","n","s","t"," ","{"," ">> \o join(propKeys, <<",",
                                                                     " ">>) \o <<
                                                                                 " ",
                                                                                 "}",
                                                                                 " ",
                                                                                 "=",
                                                                                 " ",
                                                                                 "p",
                                                                                 "r",
                                                                                 "o",
                                                                                 "p",
                                                                                 "s",
                                                                                 ";">>
        ELSE <<>>
  IN  <<<<"e","x","p","o","r","t"," ","d","e","f","a","u","l","t"," ",
          "{">>, <<" "," ","r","e","n","d","e","r","(","p","r","o","p",
                   "s",")"," ","{">>>>
        \o (IF destructure # <<>> THEN <<<<" "," "," "," ">> \o destructure>> ELSE <<>>)
        \o <<<<" "," "," "," ","r","e","t","u","r","n"," ",Backtick>> \o body \o <<
                                                                                   Backtick,
                                                                                   ";">>,
             <<" "," ","}",",">>,
             <<" "," ","r","a","w",":"," ",Backtick>> \o escapedRaw(body) \o <<
                                                                               Backtick>>,
             <<"}",";">>>>

\* compileToString(parsed): the text of the module
compileToString(parsed) == join(moduleLines(parsed), Nl) \o Nl

(***************************************************************************)
(* codegen.ts                                                              *)
(***************************************************************************)
DtsHeader == <<"d","e","c","l","a","r","e"," ","c","o","n","s","t"," ",
               "t","e","m","p","l","a","t","e",":"," ","i","m","p","o",
               "r","t","(","\"","t","y","p","e","m","a","r","k","\"",")",
               ".","T","e","m","p","l","a","t","e","<","{">>

\* every line of the props body gains the four blanks
indentFirst_all(propsLines) ==
  [i \in 1..Len(propsLines) |-> <<" "," "," "," ">> \o propsLines[i]]

\* the for loop over propsLines.entries(): the first line gains four blanks
indentFirst(propsLines) ==
  [i \in 1..Len(propsLines) |->
     IF i = 1 THEN <<" "," "," "," ">> \o propsLines[i] ELSE propsLines[i]]

\* generateDts(parsed): the text of the declaration file
generateDts(parsed) ==
  LET lines ==
        parsed.imports
          \o (IF Len(parsed.imports) > 0 THEN <<<<>>>> ELSE <<>>)
          \o parsed.preamble
          \o (IF Len(parsed.preamble) > 0 THEN <<<<>>>> ELSE <<>>)
          \o <<DtsHeader>>
          \o indentFirst(split(parsed.propsBody, "\n"))
          \o <<<<"}",">",";">>, <<"e","x","p","o","r","t"," ","d","e","f",
                                  "a","u","l","t"," ","t","e","m","p","l",
                                  "a","t","e",";">>, <<>>>>
  IN  join(lines, Nl)

(***************************************************************************)
(* Evaluating the text of a module, the way the tests of the repository do:*)
(*   const evalCode = output.replace("export default", "var __module__ =");*)
(*   const mod = new Function(evalCode + "\nreturn __module__;")();        *)
(***************************************************************************)
\* s.replace(pat, rep): the first occurrence only
replaceFirst(s, pat, rep) ==
  LET k == indexOf(s, pat, 0)
  IN  IF k = -1 THEN s
      ELSE slice(s, 0, k) \o rep \o sliceFrom(s, k + Len(pat))

\* the end of the object literal whose render function is f and whose raw
\* property is the chain r
objectClose(s, f, r) ==
  LET e == expectToken(s, r.end, <<"}">>)
  IN  IF e = -1 THEN [end |-> -1]
      ELSE [end |-> e, keys |-> f.keys, templates |-> f.templates,
            raw |-> r.templates]

\* `}, raw: ` and the template literal of raw, after the statements f of
\* the render function
objectRaw(s, f) ==
  objectClose(s, f,
    templateChain(s,
      expectToken(s, expectToken(s, expectToken(s, expectToken(s,
        f.end, <<"}">>), <<",">>), <<"r","a","w">>), <<":">>),
      <<>>))

\* the object literal `{ render(props) { ... }, raw: ... }` from position i
objectLiteral(s, i) ==
  objectRaw(s,
    renderStatements(s,
      expectToken(s, expectToken(s, expectToken(s, expectToken(s,
        expectToken(s, expectToken(s, i, <<"{">>),
                    <<"r","e","n","d","e","r">>),
        <<"(">>), <<"p","r","o","p","s">>), <<")">>), <<"{">>)))

\* what a function of the module sees of the function that evaluates it: the
\* variable __module__ (ToString of the exported object)
moduleScope == (<<"_","_","m","o","d","u","l","e","_","_">> :> <<"[","o",
                                                                 "b","j",
                                                                 "e","c",
                                                                 "t"," ",
                                                                 "O","b",
                                                                 "j","e",
                                                                 "c","t",
                                                                 "]">>)

\* what the object literal sees while it is evaluated: __module__ is hoisted
\* and not assigned yet
hoistedScope == (<<"_","_","m","o","d","u","l","e","_","_">> :> <<"u","n",
                                                                  "d","e",
                                                                  "f","i",
                                                                  "n","e",
                                                                  "d">>)

\* what `return __module__;` gives after the object literal o of code: the
\* object the module exports, its raw evaluated when the object literal is
moduleValue(code, o) ==
  LET e == expectToken(code, expectToken(code, expectToken(code,
             expectToken(code, o.end, <<";">>), <<"r","e","t","u","r",
                                                  "n">>),
             <<"_","_","m","o","d","u","l","e","_","_">>), <<";">>)
      raw == evaluateChain(o.raw, hoistedScope)
  IN  IF o.end = -1 \/ e = -1 \/ skipSpaceLeft(code, e) # Len(code)
      THEN Throw(SyntaxError)
      ELSE IF raw.err # "" THEN Throw(raw.err)
      ELSE [err |-> "",
            render |-> [keys |-> o.keys, templates |-> o.templates,
                        scope |-> moduleScope],
            raw |-> raw.value]

\* new Function(code)() for code of the form `var __module__ = {...};` and
\* `return __module__;`
evaluateCode(code) ==
  moduleValue(code,
    objectLiteral(code,
      expectToken(code, expectToken(code, expectToken(code, 0,
        <<"v","a","r">>), <<"_","_","m","o","d","u","l","e","_","_">>),
        <<"=">>)))

\* const evalCode = output.replace("export default", "var __module__ =");
\* new Function(evalCode + "\nreturn __module__;")()
evaluateModule(output) ==
  evaluateCode(
    replaceFirst(output,
                 <<"e","x","p","o","r","t"," ","d","e","f","a","u","l","t">>,
                 <<"v","a","r"," ","_","_","m","o","d","u","l","e","_","_",
                   " ","=">>)
      \o <<"\n","r","e","t","u","r","n"," ","_","_","m","o","d","u","l",
           "e","_","_",";">>)

RECURSIVE lastIndexOf(_, _, _)
\* s.lastIndexOf(pat, from): the last position <= from where pat occurs, or -1
lastIndexOf(s, pat, from) ==
  IF from < 0 THEN -1
  ELSE IF occursAt(s, pat, from) THEN from
  ELSE lastIndexOf(s, pat, from - 1)

RawKey == <<"\n"," "," ","r","a","w",":"," ">>

ModuleEnd == <<"\n","}",";","\n">>

\* the template literal of the raw property, cut out of the text of the
\* module and evaluated on its own: it starts at the last `raw: ` that opens a
\* line and is followed by a backtick, and ends where the object literal does
evaluateRaw(output) ==
  LET k == lastIndexOf(output, RawKey \o <<Backtick>>, Len(output))
      literal == slice(output, k + Len(RawKey), Len(output) - Len(ModuleEnd))
      t == templateChain(literal, 0, <<>>)
  IN  IF k = -1 \/ t.end # Len(literal) THEN Throw(SyntaxError)
      ELSE evaluateChain(t.templates, GlobalScope)

(***************************************************************************)
(* The calls that consume the ParsedTemplate of a successful parse.  Each   *)
(* is made at most once on it, in any order.                                *)
(***************************************************************************)
\* const template = compile(parsed)
Compile ==
  /\ pc = "returned"
  /\ template = <<>>
  /\ template' = <<compile(result[1])>>
  /\ UNCHANGED <<callVars, history, module, dts, loaded, rendered, watchVars>>

\* const output = compileToString(parsed)
CompileToString ==
  /\ pc = "returned"
  /\ module = <<>>
  /\ module' = <<compileToString(result[1])>>
  /\ UNCHANGED <<callVars, history, template, dts, loaded, rendered, watchVars>>

\* const dts = generateDts(parsed)
GenerateDts ==
  /\ pc = "returned"
  /\ dts = <<>>
  /\ dts' = <<generateDts(result[1])>>
  /\ UNCHANGED <<callVars, history, template, module, loaded, rendered, watchVars>>

\* the text of the module is evaluated: as a whole, which gives the exported
\* object, and its raw literal on its own
Evaluate ==
  /\ module # <<>>
  /\ loaded = <<>>
  /\ loaded' = <<[mod |-> evaluateModule(module[1]),
                  raw |-> evaluateRaw(module[1])]>>
  /\ UNCHANGED <<callVars, history, template, module, dts, rendered, watchVars>>

\* the names of the properties of the families, and the property bags: every
\* bag binds every name
KeyNames == {<<"a">>, <<"c">>}

Bags == [KeyNames -> {<<"H","e","y">>, <<"W","o","r","l","d">>}]

\* template.render(bag) and mod.render(bag) on one property bag
Render ==
  /\ template # <<>> /\ template[1].err = ""
  /\ loaded # <<>> /\ loaded[1].mod.err = ""
  /\ rendered = <<>>
  /\ \E bag \in Bags :
       rendered' = <<[bag |-> bag,
                      compiled |-> callRender(template[1].render, bag),
                      evaluated |-> callRender(loaded[1].mod.render, bag)]>>
  /\ UNCHANGED <<callVars, history, template, module, dts, loaded, watchVars>>

NextCompile == Parse \/ Compile \/ CompileToString \/ Evaluate \/ Render

NextStages == Parse \/ Compile \/ CompileToString \/ GenerateDts

\* the bodies of interface Props of the compiler family: no property, one, two,
\* and one declared twice
CompileProps ==
  { <<>>,
    <<"a",":"," ","x">>,
    <<"a",":"," ","x","\n","c",":"," ","y">>,
    <<"a",":"," ","x","\n","a",":"," ","y">> }

\* the fragments of a template body: text, the two interpolations, a backtick,
\* a backslash, an interpolation left open and a line break of two characters
BodyFrags ==
  { <<"z">>,
    <<"$","{","a","}">>,
    <<"$","{","c","}">>,
    <<Backtick>>,
    <<"\\">>,
    <<"$","{">>,
    <<"\r","\n">> }

CompileSources ==
  { FRONTMATTER_DELIMITER \o Nl \o PropsMarker \o <<" ","{","\n">> \o p \o <<
                                                                             "\n",
                                                                             "}",
                                                                             "\n">>
      \o FRONTMATTER_DELIMITER \o Nl \o b :
      p \in CompileProps, b \in concatsOf(BodyFrags, MaxBodyFrags) }

InitCompile == InitOn(CompileSources)

SpecCompile == InitCompile /\ [][NextCompile]_vars

(***************************************************************************)
(* Several calls of parse in one run.  The caller keeps what the earlier   *)
(* calls gave and calls parse again on any source; the functions share no  *)
(* variable of the module: the pattern of extractPreamble is made anew by  *)
(* every call, the delimiter is a constant.                                 *)
(***************************************************************************)
\* the sources of the repeated calls: a template, two with helper
\* declarations, and two that parse rejects
CallSources ==
  { <<"-","-","-","\n","i","n","t","e","r","f","a","c","e"," ","P","r",
      "o","p","s"," ","{","\n","a",":"," ","x","\n","}","\n","-","-","-",
      "\n","$","{","a","}">>,
    <<"-","-","-","\n","i","n","t","e","r","f","a","c","e"," ","F","o",
      "o"," ","{","b",":"," ","y","}","\n","i","n","t","e","r","f","a",
      "c","e"," ","P","r","o","p","s"," ","{","a",":"," ","x","}","\n",
      "-","-","-","\n","z">>,
    <<"-","-","-","\n","t","y","p","e"," ","T"," ","="," ","x","\n","i",
      "n","t","e","r","f","a","c","e"," ","B","a","r"," ","{","\n","i",
      "n","t","e","r","f","a","c","e"," ","P","r","o","p","s"," ","{","a",
      ":"," ","x","}","\n","-","-","-","\n","z">>,
    <<"-","-","-","\n","z">>,
    <<"z">> }

\* the call in progress is over and parse is called again: its outcome, and
\* which of the other functions were called on it, join the history
Again ==
  /\ pc # "ready"
  /\ Len(history) < MaxCalls - 1
  /\ history' = Append(history,
       [source |-> source, pc |-> pc, result |-> result, error |-> error,
        others |-> <<template # <<>>, module # <<>>, dts # <<>>>>])
  /\ source' \in CallSources
  /\ pc' = "ready"
  /\ result' = <<>>
  /\ error' = ""
  /\ template' = <<>> /\ module' = <<>> /\ dts' = <<>>
  /\ UNCHANGED <<loaded, rendered, watchVars>>

NextCalls == Parse \/ Compile \/ CompileToString \/ GenerateDts \/ Again

InitCalls == InitOn(CallSources)

SpecCalls == InitCalls /\ [][NextCalls]_vars

\* the lines above interface Props of the codegen family: an import, a helper
\* interface of three lines and a type alias
HeaderLines ==
  { <<"i","m","p","o","r","t"," ","t","y","p","e"," ","{","U","}"," ","f",
      "r","o","m"," ","u">>,
    <<"i","n","t","e","r","f","a","c","e"," ","F","o","o"," ","{","\n",
      " "," ","b",":"," ","y","\n","}">>,
    <<"t","y","p","e"," ","T"," ","="," ","x">> }

\* the properties of interface Props of the codegen family: on one line, with
\* a body of its own over three lines, optional
StageProps ==
  { <<" "," ","a",":"," ","x",";">>,
    <<" "," ","c",":"," ","{","\n"," "," "," "," ","n",":"," ","y","\n",
      " "," ","}">>,
    <<" "," ","k","?",":"," ","y">> }

\* the bodies of the codegen family: text, an interpolation, backticks
StageBodies ==
  { <<"z">>,
    <<"$","{","a","}">>,
    <<Backtick,"z",Backtick>> }

\* every text of at most n of the items, each followed by a line break
blocksOf(items, n) ==
  {join(ls, Nl) \o (IF ls = <<>> THEN <<>> ELSE Nl) :
     ls \in UNION {[1..k -> items] : k \in 0..n}}

StageSources ==
  { FRONTMATTER_DELIMITER \o Nl \o h \o PropsMarker \o <<" ","{","\n">> \o p \o <<
                                                                                  "}",
                                                                                  "\n">>
      \o FRONTMATTER_DELIMITER \o Nl \o b :
      h \in blocksOf(HeaderLines, MaxStageLines),
      p \in blocksOf(StageProps, MaxStageLines),
      b \in StageBodies }

InitStages == InitOn(StageSources)

SpecStages == InitStages /\ [][NextStages]_vars

\* delimiters, the Props marker with and without braces, and two helper
\* interfaces without braces of their own, one of them named PropsX
ErrFrags ==
  { FRONTMATTER_DELIMITER,
    Nl,
    PropsMarker,
    <<"{">>,
    PropsMarker \o <<"{", "}">>,
    KwInterface \o <<" ","B","a","r"," ">>,
    PropsMarker \o <<"X"," ">> }

ErrSources == concatsOf(ErrFrags, MaxErrFrags)

InitErr == InitOn(ErrSources)

SpecErr == InitErr /\ [][Next]_vars

(***************************************************************************)
(* Watch mode of the command line (cli.ts): after the first generation the  *)
(* directory is watched, and every file-change event invokes the callback.  *)
(* The callback leaves an event alone when it has no filename or one that   *)
(* does not end in .mdt; otherwise it awaits generateDtsForFile, then       *)
(* awaits the write of <file>.d.ts, then prints a line; whatever is thrown  *)
(* on the way is caught and printed.  The two awaits are the points at      *)
(* which other events and other callbacks run in between.                   *)
(*   fs      the files under the directory: full path -> text               *)
(*   events  the events raised, each <<>> (no filename) or <<filename>>     *)
(*   tasks   the invocation for each delivered event:                       *)
(*           pc "ignored" (returned at once), "reading" (awaits             *)
(*           generateDtsForFile), "writing" (awaits Bun.write), "updated",  *)
(*           "failed" (the catch block ran)                                 *)
(*   log     the console: stream "log" or "error", event, filename          *)
(***************************************************************************)
\* resolve("."), the watched directory
Dir == <<"/","w">>

\* resolve(dir, filename) for a filename relative to dir
resolve(dir, filename) == dir \o <<"/">> \o filename

\* String.prototype.endsWith
endsWith(s, pat) == Len(pat) <= Len(s) /\ occursAt(s, pat, Len(s) - Len(pat))

MdtSuffix == <<".","m","d","t">>

DtsSuffix == <<".","d",".","t","s">>

ENOENT == "ENOENT: no such file or directory"

\* the guard of the callback with the test of the suffix left out
returnsEarly_absentOnly(filename) ==
  filename = <<>> \/ filename[1] = <<>>

\* the guard of the callback: true when it returns without doing anything
returnsEarly(filename) ==
  \/ filename = <<>>
  \/ filename[1] = <<>>
  \/ ~endsWith(filename[1], MdtSuffix)

\* the files after a write of text to path
written(files, path, text) == (path :> text) @@ files

\* the files after the removal of path
removed(files, path) == [q \in (DOMAIN files) \ {path} |-> files[q]]

AMdt == <<"a",".","m","d","t">>

NTxt == <<"n",".","t","x","t">>

\* the texts an editor saves to a.mdt: two templates and one without the
\* closing delimiter
MdtTexts ==
  { <<"-","-","-","\n","i","n","t","e","r","f","a","c","e"," ","P","r",
      "o","p","s"," ","{","\n"," "," ","a",":"," ","x",";","\n","}","\n",
      "-","-","-","\n","z">>,
    <<"-","-","-","\n","i","n","t","e","r","f","a","c","e"," ","P","r",
      "o","p","s"," ","{","\n"," "," ","c",":"," ","y",";","\n","}","\n",
      "-","-","-","\n","z">>,
    <<"-","-","-","\n","i","n","t","e","r","f","a","c","e"," ","P","r",
      "o","p","s"," ","{","\n">> }

\* the texts a file under the directory can hold: what an editor saves and
\* the declarations generated from it
FileTexts ==
  MdtTexts \cup {<<"x">>}
    \cup {generateDts(parse(t).value) : t \in {u \in MdtTexts : parse(u).err = ""}}

\* parse and generateDts of generateDtsForFile, on each of these texts
generated ==
  [t \in FileTexts |->
     LET parsed == parse(t)
     IN  IF parsed.err # "" THEN Throw(parsed.err)
         ELSE [err |-> "", value |-> generateDts(parsed.value)]]

\* generateDtsForFile on the files as they are when the read completes
generateDtsForFile(files, filePath) ==
  IF filePath \notin DOMAIN files THEN Throw(ENOENT)
  ELSE generated[files[filePath]]

\* what an editor saves: a template file, or a file that is none
Saves == ({AMdt} \X MdtTexts) \cup {<<NTxt, <<"x">>>>}

\* an editor saves a file under the directory: the watcher raises an event
Save ==
  /\ Len(events) < MaxEvents
  /\ \E sv \in Saves :
       /\ fs' = written(fs, resolve(Dir, sv[1]), sv[2])
       /\ events' = Append(events, <<sv[1]>>)
  /\ UNCHANGED <<callVars, history, stageVars, tasks, log>>

\* a template file is removed: the watcher raises an event for it
Remove ==
  /\ Len(events) < MaxEvents
  /\ resolve(Dir, AMdt) \in DOMAIN fs
  /\ fs' = removed(fs, resolve(Dir, AMdt))
  /\ events' = Append(events, <<AMdt>>)
  /\ UNCHANGED <<callVars, history, stageVars, tasks, log>>

\* the watcher raises an event without a filename
Unnamed ==
  /\ Len(events) < MaxEvents
  /\ events' = Append(events, <<>>)
  /\ UNCHANGED <<callVars, history, stageVars, fs, tasks, log>>

\* the callback is invoked for the oldest event not delivered yet and runs up
\* to its first await
Callback ==
  /\ Len(tasks) < Len(events)
  /\ LET filename == events[Len(tasks) + 1]
     IN  tasks' = Append(tasks,
                    IF returnsEarly(filename)
                    THEN [pc |-> "ignored", fullPath |-> <<>>, dtsContent |-> <<>>]
                    ELSE [pc |-> "reading",
                          fullPath |-> resolve(Dir, filename[1]),
                          dtsContent |-> <<>>])
  /\ UNCHANGED <<callVars, history, stageVars, fs, events, log>>

\* generateDtsForFile settles for invocation k: the text is kept for the
\* write, or the catch block prints the error
Generated(k) ==
  /\ k \in 1..Len(tasks)
  /\ tasks[k].pc = "reading"
  /\ LET r == generateDtsForFile(fs, tasks[k].fullPath)
     IN  IF r.err # ""
         THEN /\ tasks' = [tasks EXCEPT ![k].pc = "failed"]
              /\ log' = Append(log, [stream |-> "error", event |-> k,
                                     filename |-> events[k][1]])
         ELSE /\ tasks' = [tasks EXCEPT ![k].pc = "writing",
                                        ![k].dtsContent = r.value]
              /\ log' = log
  /\ UNCHANGED <<callVars, history, stageVars, fs, events>>

\* Bun.write settles for invocation k: <file>.d.ts is written, which raises
\* an event of its own, and the line is printed
Written(k) ==
  /\ k \in 1..Len(tasks)
  /\ tasks[k].pc = "writing"
  /\ fs' = written(fs, tasks[k].fullPath \o DtsSuffix, tasks[k].dtsContent)
  /\ events' = Append(events, <<events[k][1] \o DtsSuffix>>)
  /\ tasks' = [tasks EXCEPT ![k].pc = "updated"]
  /\ log' = Append(log, [stream |-> "log", event |-> k,
                         filename |-> events[k][1] \o DtsSuffix])
  /\ UNCHANGED <<callVars, history, stageVars>>

\* the files once the first generation has succeeded: no template, or one
\* template with its declaration file
WatchedFiles ==
  { (resolve(Dir, NTxt) :> <<"x">>) }
  \cup
  { written(written((resolve(Dir, NTxt) :> <<"x">>), resolve(Dir, AMdt), t),
            resolve(Dir, AMdt) \o DtsSuffix,
            generateDts(parse(t).value)) :
      t \in {u \in MdtTexts : parse(u).err = ""} }

InitWatch ==
  /\ source = <<>> /\ pc = "ready" /\ result = <<>> /\ error = ""
  /\ history = <<>>
  /\ template = <<>> /\ module = <<>> /\ dts = <<>>
  /\ loaded = <<>> /\ rendered = <<>>
  /\ fs \in WatchedFiles
  /\ events = <<>> /\ tasks = <<>> /\ log = <<>>

\* the steps of the event loop: it delivers the oldest event or resumes an
\* invocation whose awaited promise has settled
EventLoop ==
  \/ Callback
  \/ \E k \in 1..(2 * MaxEvents) : Generated(k)
  \/ \E k \in 1..(2 * MaxEvents) : Written(k)

NextWatch ==
  \/ Save
  \/ Remove
  \/ Unnamed
  \/ EventLoop

SpecWatch == InitWatch /\ [][NextWatch]_vars

\* the event loop keeps running while it has something to run
FairWatch == SpecWatch /\ WF_vars(EventLoop)

(***************************************************************************)
(* Vocabulary of the properties, stated over the texts themselves.         *)
(***************************************************************************)
\* the positions (0-based) at which pat occurs in s
Positions(s, pat) ==
  {i \in 0..(Len(s) - Len(pat)) :
     \A k \in 1..Len(pat) : s[i + k] = pat[k]}

Least(S) == CHOOSE x \in S : \A y \in S : x <= y

HasOpening(src) == Positions(src, FRONTMATTER_DELIMITER) # {}

OpeningAt(src) == Least(Positions(src, FRONTMATTER_DELIMITER))

\* the occurrences of the delimiter that start at or after the character that
\* follows the opening delimiter
ClosingCandidates(src) ==
  LET a == OpeningAt(src) + 3
  IN  {i \in Positions(src, FRONTMATTER_DELIMITER) : i >= a}

HasClosing(src) == HasOpening(src) /\ ClosingCandidates(src) # {}

ClosingAt(src) == Least(ClosingCandidates(src))

\* the text strictly between the two delimiters, and the text after the second
Between(src) ==
  LET a == OpeningAt(src) + 3
      b == ClosingAt(src)
  IN  [k \in 1..(b - a) |-> src[a + k]]

After(src) ==
  LET b == ClosingAt(src) + 3
  IN  [k \in 1..(Len(src) - b) |-> src[b + k]]

AllSpace(s) == \A k \in 1..Len(s) : s[k] \in WhiteSpace

\* t is s without its leading and trailing white space
IsTrimOf(t, s) ==
  \E i \in 0..Len(s) : \E j \in i..Len(s) :
    /\ t = [k \in 1..(j - i) |-> s[i + k]]
    /\ \A k \in 1..i : s[k] \in WhiteSpace
    /\ \A k \in (j + 1)..Len(s) : s[k] \in WhiteSpace
    /\ t = <<>> \/ (t[1] \notin WhiteSpace /\ t[Len(t)] \notin WhiteSpace)

Failed(msg) == pc = "thrown" /\ error = msg /\ result = <<>>

(***************************************************************************)
(* C1: parse fails with the opening-delimiter error when the source holds   *)
(* no `---`, and with the closing-delimiter error when it holds a first     *)
(* `---` but no further `---` starting at or after the character following  *)
(* it; in both cases no ParsedTemplate is returned.                         *)
(***************************************************************************)
C1_DelimiterErrors ==
  pc # "ready" =>
    /\ ~HasOpening(source) => Failed(ErrNoOpening)
    /\ (HasOpening(source) /\ ~HasClosing(source)) => Failed(ErrNoClosing)

\* a source of four dashes or more, whose second `---` would overlap the first,
\* has been refused for want of a closing delimiter
C1_Witness ==
  /\ pc = "thrown"
  /\ error = ErrNoClosing
  /\ HasOpening(source)
  /\ OpeningAt(source) + 1 \in Positions(source, FRONTMATTER_DELIMITER)

HasMarker(src) == Positions(Between(src), PropsMarker) # {}

MarkerAt(fm) == Least(Positions(fm, PropsMarker))

\* the opening braces after the marker
BracesAfter(fm) ==
  {i \in Positions(fm, <<"{">>) : i >= MarkerAt(fm) + Len(PropsMarker)}

\* the net brace depth of the characters of s at positions a .. b-1
DepthOver(s, a, b) ==
  Cardinality({k \in a..(b - 1) : s[k + 1] = "{"})
    - Cardinality({k \in a..(b - 1) : s[k + 1] = "}"})

\* the positions after the opening brace ob at which the depth is back to 0
Closes(s, ob) ==
  {j \in (ob + 1)..(Len(s) - 1) : 1 + DepthOver(s, ob + 1, j + 1) = 0}

(***************************************************************************)
(* C3: when the frontmatter holds `interface Props` but no `{` after it,    *)
(* parse fails with the malformed-Props error; when a `{` follows but the   *)
(* brace depth (1 after that brace, +1 on `{`, -1 on `}`) never returns to  *)
(* 0 before the frontmatter ends, parse fails with the unbalanced-braces    *)
(* error; in neither case is a partial propsBody returned.                  *)
(***************************************************************************)
C3_MalformedProps ==
  (pc # "ready" /\ HasClosing(source) /\ HasMarker(source)) =>
    LET fm == Between(source)
    IN  /\ BracesAfter(fm) = {} => Failed(ErrNoBrace)
        /\ (BracesAfter(fm) # {} /\ Closes(fm, Least(BracesAfter(fm))) = {})
             => Failed(ErrUnmatched)

\* a Props body that holds a closing brace, but not the matching one, was refused
C3_Witness ==
  /\ pc = "thrown"
  /\ error = ErrUnmatched
  /\ LET fm == Between(source)
     IN  \E j \in Positions(fm, <<"}">>) : j > Least(BracesAfter(fm))

PropsDeclarations(fm) ==
  {p \in Positions(fm, PropsMarker) :
     \/ p + Len(PropsMarker) = Len(fm)
     \/ fm[p + Len(PropsMarker) + 1] \notin WordChars}

\* the opening brace of the declaration at p
OpenBraceOf(fm, p) ==
  Least({i \in Positions(fm, <<"{">>) : i >= p + Len(PropsMarker)})

\* the declaration at p has an opening brace and a matching closing brace
WellFormedAt(fm, p) ==
  /\ \E i \in Positions(fm, <<"{">>) : i >= p + Len(PropsMarker)
  /\ Closes(fm, OpenBraceOf(fm, p)) # {}

\* the text strictly between the braces of the declaration at p
BracedText(fm, p) ==
  LET ob == OpenBraceOf(fm, p)
      cl == Least(Closes(fm, ob))
  IN  [k \in 1..(cl - ob - 1) |-> fm[ob + 1 + k]]

(***************************************************************************)
(* C4: for every successful parse, propsBody is exactly the text strictly   *)
(* between the opening brace of the declaration named `Props` and its       *)
(* matching closing brace, trimmed at both ends and otherwise unchanged,    *)
(* also when the frontmatter holds other interfaces, before or after Props, *)
(* including ones whose name merely starts with `Props`.                    *)
(***************************************************************************)
C4_PropsBodyOfProps ==
  pc = "returned" =>
    LET fm == Between(source)
    IN  (PropsDeclarations(fm) # {} /\ WellFormedAt(fm, Least(PropsDeclarations(fm))))
          => IsTrimOf(result[1].propsBody, BracedText(fm, Least(PropsDeclarations(fm))))

(***************************************************************************)
(* Properties declared in a Props body, read off the text: a name (a run of *)
(* word characters that starts a word) followed by an optional `?` and a    *)
(* `:`, white space allowed around the `?`.                                 *)
(***************************************************************************)
IsWordStart(s, p) ==
  /\ s[p + 1] \in WordChars
  /\ p = 0 \/ s[p] \notin WordChars

\* the position after the word that starts at p
WordEndAt(s, p) ==
  Least({e \in (p + 1)..Len(s) : e = Len(s) \/ s[e + 1] \notin WordChars})

\* the position of the colon that ends the declaration of the name at p, if any
ColonsOf(s, p) ==
  LET e == WordEndAt(s, p)
  IN  {c \in e..(Len(s) - 1) :
         /\ s[c + 1] = ":"
         /\ \A k \in e..(c - 1) : s[k + 1] \in WhiteSpace \cup {"?"}
         /\ Cardinality({k \in e..(c - 1) : s[k + 1] = "?"}) <= 1}

\* the positions at which a property is declared
Declared(s) ==
  {p \in 0..(Len(s) - 1) : IsWordStart(s, p) /\ ColonsOf(s, p) # {}}

\* the declaration at p carries the optional marker
IsOptional(s, p) ==
  \E k \in WordEndAt(s, p)..(Least(ColonsOf(s, p)) - 1) : s[k + 1] = "?"

\* the next thing after the colon of the declaration at p is an opening brace
HasOwnBrace(s, p) ==
  \E b \in (Least(ColonsOf(s, p)) + 1)..(Len(s) - 1) :
    /\ s[b + 1] = "{"
    /\ \A k \in (Least(ColonsOf(s, p)) + 1)..(b - 1) : s[k + 1] \in {" ", "\t"}

\* the brace depth of s at position p
DepthAt(s, p) == DepthOver(s, 0, p)

\* the position at which the line of position p starts
LineStartOf(s, p) ==
  LET nls == {q \in 0..(p - 1) : s[q + 1] = "\n"}
  IN  IF nls = {} THEN 0 ELSE (CHOOSE q \in nls : \A r \in nls : r <= q) + 1

\* the name declared at p
NameAt(s, p) ==
  LET e == WordEndAt(s, p)
  IN  [k \in 1..(e - p) |-> s[p + k]]

\* the names declared at the positions of P, in the order of the text
NamesOf(s, P) ==
  [k \in 1..Cardinality(P) |->
     NameAt(s, CHOOSE p \in P : Cardinality({q \in P : q < p}) = k - 1)]

RECURSIVE IsSubseq(_, _)
\* a is b with some of its elements left out
IsSubseq(a, b) ==
  IF a = <<>> THEN TRUE
  ELSE IF b = <<>> THEN FALSE
  ELSE IF Head(a) = Head(b) THEN IsSubseq(Tail(a), Tail(b))
  ELSE IsSubseq(a, Tail(b))

(***************************************************************************)
(* C5: for every successful parse, propKeys lists the name of every         *)
(* property declared at brace depth 0 inside propsBody, in declaration      *)
(* order, with duplicates kept (for `user: { firstName: string; age: number *)
(* } count: number` it is <<user, count>>).                                 *)
(***************************************************************************)
C5_AllTopLevelKeys ==
  pc = "returned" =>
    LET pb == result[1].propsBody
    IN  result[1].propKeys = NamesOf(pb, {p \in Declared(pb) : DepthAt(pb, p) = 0})

(***************************************************************************)
(* C6: a property name declared on a line that starts inside a nested       *)
(* object-type body (brace depth >= 1 at the start of the line, at any      *)
(* nesting level) is never added to propKeys, while a property on the same  *)
(* line as its own opening brace (depth 0 at line start) is added.          *)
(***************************************************************************)
C6_DepthAtLineStart ==
  pc = "returned" =>
    LET pb == result[1].propsBody
        onTopLines == {p \in Declared(pb) : DepthAt(pb, LineStartOf(pb, p)) = 0}
        withBrace  == {p \in onTopLines : DepthAt(pb, p) = 0 /\ HasOwnBrace(pb, p)}
    IN  /\ IsSubseq(result[1].propKeys, NamesOf(pb, onTopLines))
        /\ IsSubseq(NamesOf(pb, withBrace), result[1].propKeys)

(***************************************************************************)
(* C7: a depth-0 property written with the optional marker (`name?: type`,  *)
(* with or without white space around `?`) is recorded in propKeys as       *)
(* `name`, without the `?`.                                                 *)
(***************************************************************************)
C7_OptionalKeys ==
  pc = "returned" =>
    LET pb == result[1].propsBody
        optional == {p \in Declared(pb) : DepthAt(pb, p) = 0 /\ IsOptional(pb, p)}
    IN  /\ IsSubseq(NamesOf(pb, optional), result[1].propKeys)
        /\ \A i \in 1..Len(result[1].propKeys) :
             \A k \in 1..Len(result[1].propKeys[i]) : result[1].propKeys[i][k] # "?"

(***************************************************************************)
(* Lines of a text, read off the positions of its line breaks.              *)
(***************************************************************************)
\* s without its leading and trailing white space
TrimOf(s) ==
  LET inked == {k \in 1..Len(s) : s[k] \notin WhiteSpace}
      lo == CHOOSE k \in inked : \A m \in inked : k <= m
      hi == CHOOSE k \in inked : \A m \in inked : m <= k
  IN  IF inked = {} THEN <<>> ELSE [k \in 1..(hi - lo + 1) |-> s[lo + k - 1]]

\* the frontmatter: the trimmed text between the delimiters
Frontmatter(src) == TrimOf(Between(src))

\* the indices (1-based) of the line breaks of t
Breaks(t) == {q \in 1..Len(t) : t[q] = "\n"}

\* the k-th element of a set of numbers, in increasing order
Nth(S, k) == CHOOSE x \in S : Cardinality({y \in S : y < x}) = k - 1

LineCount(t) == Cardinality(Breaks(t)) + 1

\* the k-th line of t
LineOf(t, k) ==
  LET bs == Breaks(t)
      lo == IF k = 1 THEN 1 ELSE Nth(bs, k - 1) + 1
      hi == IF k = Cardinality(bs) + 1 THEN Len(t) ELSE Nth(bs, k) - 1
  IN  [i \in 1..(hi - lo + 1) |-> t[lo + i - 1]]

BeginsWith(s, pat) == 0 \in Positions(s, pat)

\* the lines of t that, trimmed, begin with `import type`
ImportLines(t) ==
  {k \in 1..LineCount(t) : BeginsWith(TrimOf(LineOf(t, k)), ImportPrefix)}

(***************************************************************************)
(* C9: for every successful parse, imports is exactly the sequence of       *)
(* frontmatter lines that, after trimming, begin with `import type`, each   *)
(* stored as trimmed and in source order: a line is in imports if and only  *)
(* if it passes that test, and imports is empty when no line does.          *)
(***************************************************************************)
C9_Imports ==
  pc = "returned" =>
    LET t == Frontmatter(source)
        I == ImportLines(t)
    IN  result[1].imports =
          [j \in 1..Cardinality(I) |-> TrimOf(LineOf(t, Nth(I, j)))]

\* two import lines, one of them indented, and a line that is no import
C9_Witness ==
  /\ pc = "returned"
  /\ Len(result[1].imports) >= 2
  /\ LET t == Frontmatter(source)
     IN  /\ LineCount(t) > Cardinality(ImportLines(t))
         /\ \E k \in ImportLines(t) : LineOf(t, k) # TrimOf(LineOf(t, k))

(***************************************************************************)
(* Helper declarations of a frontmatter, read off the text: the keyword     *)
(* `interface` or `type` starting a word, blanks, and a name other than     *)
(* Props, outside every declaration body and outside the import lines.      *)
(***************************************************************************)
KeywordLen(t, p) ==
  IF p \in Positions(t, KwInterface) THEN Len(KwInterface)
  ELSE IF p \in Positions(t, KwType) THEN Len(KwType) ELSE 0

\* the positions at which a name other than Props follows the keyword at p
HelperNames(t, p) ==
  LET q == p + KeywordLen(t, p)
  IN  {r \in (q + 1)..(Len(t) - 1) :
         /\ \A k \in q..(r - 1) : t[k + 1] \in {" ", "\t"}
         /\ IsWordStart(t, r)
         /\ NameAt(t, r) # NameProps}

\* the line (1-based) that holds position p
LineIndexOf(t, p) == Cardinality({q \in Breaks(t) : q <= p}) + 1

HelperStarts(t) ==
  {p \in 0..(Len(t) - 1) :
     /\ KeywordLen(t, p) > 0
     /\ p = 0 \/ t[p] \notin WordChars
     /\ HelperNames(t, p) # {}
     /\ DepthAt(t, p) = 0
     /\ LineIndexOf(t, p) \notin ImportLines(t)}

\* every brace of t is matched
Balanced(t) ==
  /\ \A p \in 0..Len(t) : DepthAt(t, p) >= 0
  /\ DepthAt(t, Len(t)) = 0

\* the text of the helper declaration that starts at p
HelperText(t, p) ==
  IF p \in Positions(t, KwInterface)
  THEN LET ob == Least({i \in Positions(t, <<"{">>) : i >= p})
           cl == Least(Closes(t, ob))
       IN  [k \in 1..(cl - p + 1) |-> t[p + k]]
  ELSE LET e == Least({q \in p..Len(t) : q = Len(t) \/ t[q + 1] = "\n"})
       IN  TrimOf([k \in 1..(e - p) |-> t[p + k]])

(***************************************************************************)
(* C10: for every successful parse, preamble holds exactly one entry per    *)
(* helper (non-Props) interface or type-alias declaration of the            *)
(* frontmatter and nothing else, in source order: an interface entry is the *)
(* text from its `interface` keyword through its matching closing brace, an *)
(* alias entry the text from `type` to the end of its line, and neither the *)
(* Props declaration nor import lines nor text inside a declaration body    *)
(* yields an entry.                                                         *)
(***************************************************************************)
C10_Preamble ==
  (pc = "returned" /\ Balanced(Frontmatter(source))) =>
    LET t == Frontmatter(source)
        H == HelperStarts(t)
    IN  result[1].preamble =
          [j \in 1..Cardinality(H) |-> HelperText(t, Nth(H, j))]

NoTickNoSlash(s) == \A k \in 1..Len(s) : s[k] # Backtick /\ s[k] # "\\"

(***************************************************************************)
(* C12: for every parsed body, the raw value of the template equals the     *)
(* body character for character, interpolations left unevaluated, on both   *)
(* paths: compile(parsed).raw, and the string obtained by evaluating the    *)
(* template literal that compileToString(parsed) emits for raw.             *)
(***************************************************************************)
C12_RawIsBody ==
  /\ (template # <<>> /\ template[1].err = "") =>
       template[1].raw = result[1].body
  /\ loaded # <<>> =>
       /\ loaded[1].raw.err = ""
       /\ loaded[1].raw.value = result[1].body

\* what one character of the body becomes in the raw literal
EscapedAt(body, p) ==
  IF body[p] = "\\" THEN <<"\\", "\\">>
  ELSE IF body[p] = Backtick THEN <<"\\", Backtick>>
  ELSE IF body[p] = "$" /\ p < Len(body) /\ body[p + 1] = "{"
       THEN <<"\\", "$">>
  ELSE <<body[p]>>

RECURSIVE EscapedUpTo(_, _)
\* the first p characters of the body, escaped one by one
EscapedUpTo(body, p) ==
  IF p = 0 THEN <<>> ELSE EscapedUpTo(body, p - 1) \o EscapedAt(body, p)

\* t ends with the text suffix
EndsWith(t, suffix) ==
  /\ Len(suffix) <= Len(t)
  /\ \A k \in 1..Len(suffix) : t[Len(t) - Len(suffix) + k] = suffix[k]

(***************************************************************************)
(* C13: in the output of compileToString the raw literal is the body with   *)
(* every backslash doubled, one backslash before every backtick and one     *)
(* before every `${`, the backslashes added for backticks and `${` not      *)
(* doubled; the return line of render holds the body as it is, its `${`     *)
(* live.                                                                    *)
(***************************************************************************)
C13_Escaping ==
  module # <<>> =>
    LET body == result[1].body
    IN  EndsWith(module[1],
          <<" "," "," "," ","r","e","t","u","r","n"," ",Backtick>> \o body \o <<
                                                                                Backtick,
                                                                                ";",
                                                                                "\n",
                                                                                " ",
                                                                                " ",
                                                                                "}",
                                                                                ",",
                                                                                "\n",
                                                                                " ",
                                                                                " ",
                                                                                "r",
                                                                                "a",
                                                                                "w",
                                                                                ":",
                                                                                " ",
                                                                                Backtick>>
            \o EscapedUpTo(body, Len(body)) \o <<Backtick,"\n","}",";",
                                                 "\n">>)

\* a body that holds a backslash, a backtick and an interpolation
C13_Witness ==
  /\ module # <<>>
  /\ \E i, j, k \in 1..Len(result[1].body) :
       /\ result[1].body[i] = "\\"
       /\ result[1].body[j] = Backtick
       /\ result[1].body[k] = "$" /\ k < Len(result[1].body)
       /\ result[1].body[k + 1] = "{"

RECURSIVE Listed(_)
\* the names of keys separated by a comma and a blank
Listed(keys) ==
  IF keys = <<>> THEN <<>>
  ELSE IF Len(keys) = 1 THEN keys[1]
  ELSE Listed(SubSeq(keys, 1, Len(keys) - 1)) \o <<","," ">> \o keys[Len(keys)]

(***************************************************************************)
(* C14: the output of compileToString holds a destructuring line            *)
(* `const { k1, k2, ... } = props;` listing propKeys in their order if and  *)
(* only if propKeys is not empty (no such line at all when it is), and the  *)
(* output ends with a line terminator.                                      *)
(***************************************************************************)
C14_Destructuring ==
  module # <<>> =>
    LET out == module[1]
        keys == result[1].propKeys
    IN  /\ out[Len(out)] = "\n"
        /\ keys # <<>> =>
             /\ LineOf(out, 3) = <<" "," "," "," ","c","o","n","s","t",
                                   " ","{"," ">> \o Listed(keys)
                                   \o <<" ","}"," ","="," ","p","r","o",
                                        "p","s",";">>
             /\ BeginsWith(LineOf(out, 4), <<" "," "," "," ","r","e","t",
                                             "u","r","n"," ",Backtick>>)
        /\ keys = <<>> =>
             /\ BeginsWith(LineOf(out, 3), <<" "," "," "," ","r","e","t",
                                             "u","r","n"," ",Backtick>>)
             /\ Positions(out, <<"c","o","n","s","t">>) = {}

\* the module of a template with two properties
C14_Witness ==
  /\ module # <<>>
  /\ result[1].propKeys = <<<<"a">>, <<"c">>>>

RECURSIVE Terminated(_)
\* the texts of lines, each followed by a line break
Terminated(lines) ==
  IF lines = <<>> THEN <<>>
  ELSE Terminated(SubSeq(lines, 1, Len(lines) - 1)) \o lines[Len(lines)] \o Nl

(***************************************************************************)
(* C16: generateDts(parsed) returns exactly, each followed by a line break  *)
(* and in this order: every import line; one empty line if and only if      *)
(* imports is not empty; every preamble entry; one empty line if and only   *)
(* if preamble is not empty; the header                                     *)
(* `declare const template: import("typemark").Template<{`; propsBody, its  *)
(* first line behind four blanks and its later lines unchanged; `}>;`;      *)
(* `export default template;`.                                              *)
(***************************************************************************)
C16_DtsText ==
  dts # <<>> =>
    LET p == result[1]
    IN  dts[1] =
          Terminated(p.imports)
            \o (IF p.imports # <<>> THEN Nl ELSE <<>>)
            \o Terminated(p.preamble)
            \o (IF p.preamble # <<>> THEN Nl ELSE <<>>)
            \o <<"d","e","c","l","a","r","e"," ","c","o","n","s","t"," ",
                 "t","e","m","p","l","a","t","e",":"," ","i","m","p","o",
                 "r","t","(","\"","t","y","p","e","m","a","r","k","\"",
                 ")",".","T","e","m","p","l","a","t","e","<","{","\n">>
            \o <<" "," "," "," ">> \o p.propsBody \o Nl
            \o <<"}",">",";","\n","e","x","p","o","r","t"," ","d","e","f",
                 "a","u","l","t"," ","t","e","m","p","l","a","t","e",";",
                 "\n">>

\* a declaration file with an import, a helper declaration and a Props body
\* of several lines
C16_Witness ==
  /\ dts # <<>>
  /\ result[1].imports # <<>>
  /\ result[1].preamble # <<>>
  /\ \E k \in 1..Len(result[1].propsBody) : result[1].propsBody[k] = "\n"

(***************************************************************************)
(* C17: for every ParsedTemplate a successful parse returns, compile,       *)
(* compileToString and generateDts return normally: the compiler and the    *)
(* declaration generator raise no failure of their own on the output of the *)
(* parser, duplicate propKeys and bodies with backticks included.           *)
(* compileToString and generateDts build a text and have no failing path;   *)
(* compile fails when new Function does.                                    *)
(***************************************************************************)
C17_StagesReturn ==
  pc = "returned" =>
    /\ template # <<>> => template[1].err = ""
    /\ module # <<>> => Len(module[1]) > 0
    /\ dts # <<>> => Len(dts[1]) > 0

(***************************************************************************)
(* C18: parse reports exactly one failure, the first violated precondition  *)
(* in the order opening delimiter, closing delimiter, missing Props         *)
(* declaration, missing opening brace of Props, unbalanced braces of Props; *)
(* nothing else makes it fail: the extraction of imports and of the         *)
(* preamble raises nothing, so an unbalanced or brace-less helper interface *)
(* leaves parse successful.  The Props declaration is the first interface   *)
(* named Props.                                                             *)
(***************************************************************************)
C18_FirstFailure ==
  pc # "ready" =>
    IF ~HasOpening(source) THEN Failed(ErrNoOpening)
    ELSE IF ~HasClosing(source) THEN Failed(ErrNoClosing)
    ELSE
      LET fm == Between(source)
          D == PropsDeclarations(fm)
      IN  IF D = {} THEN Failed(ErrNoProps)
          ELSE IF \A i \in Positions(fm, <<"{">>) : i < Least(D) + Len(PropsMarker)
               THEN Failed(ErrNoBrace)
          ELSE IF Closes(fm, OpenBraceOf(fm, Least(D))) = {}
               THEN Failed(ErrUnmatched)
          ELSE pc = "returned"

(***************************************************************************)
(* C19: for every successful parse, propsBody is brace-balanced (with `{`   *)
(* counted +1 and `}` counted -1, no prefix of propsBody has a negative     *)
(* depth and the whole has depth 0); so the depth counter of property-key   *)
(* extraction is never negative at the start of a line and is 0 after the   *)
(* last line.                                                               *)
(***************************************************************************)
C19_BalancedProps ==
  pc = "returned" =>
    LET pb == result[1].propsBody
        depths == propKeysDepths(pb)
    IN  /\ \A n \in 0..Len(pb) : DepthOver(pb, 0, n) >= 0
        /\ DepthOver(pb, 0, Len(pb)) = 0
        /\ Len(depths) = Cardinality(Positions(pb, Nl)) + 2
        /\ \A k \in 1..Len(depths) : depths[k] >= 0
        /\ depths[Len(depths)] = 0

\* a returned propsBody of several lines, one of which starts inside a nested
\* object type, with text left behind the brace that closes Props
C19_Witness ==
  /\ pc = "returned"
  /\ \E k \in 1..Len(propKeysDepths(result[1].propsBody)) :
       propKeysDepths(result[1].propsBody)[k] > 0
  /\ Positions(source, <<"}">>) # {}
  /\ LET fm == Between(source)
     IN  Cardinality(Positions(fm, <<"}">>))
           > Cardinality(Positions(result[1].propsBody, <<"}">>)) + 1

\* an event the watcher is to leave alone: no filename, or one that does not
\* end in .mdt
Ignorable(event) == event = <<>> \/ ~EndsWith(event[1], <<".","m","d",
                                                          "t">>)

\* a text parse fails on
Malformed(text) ==
  \/ ~HasOpening(text)
  \/ ~HasClosing(text)
  \/ ~HasMarker(text)
  \/ LET fm == Between(text)
     IN  \/ BracesAfter(fm) = {}
         \/ Closes(fm, Least(BracesAfter(fm))) = {}

\* the invocation for event k is over
Handled(k) ==
  /\ k <= Len(tasks)
  /\ tasks[k].pc \in {"ignored", "updated", "failed"}

\* in this step the invocation for event k returns early or fails
SetAside(k) ==
  /\ k <= Len(tasks')
  /\ tasks'[k].pc \in {"ignored", "failed"}
  /\ k <= Len(tasks) => tasks[k].pc # tasks'[k].pc

\* in this step the generation for event k settles, on a file that cannot be
\* read or parsed
FailsNow(k) ==
  /\ k <= Len(tasks)
  /\ tasks[k].pc = "reading"
  /\ tasks'[k].pc # "reading"
  /\ \/ tasks[k].fullPath \notin DOMAIN fs
     \/ Malformed(fs[tasks[k].fullPath])

\* every delivered event that is to be left alone was, and printed nothing;
\* an invocation has failed exactly when it has printed its error
C20_State ==
  \A k \in 1..Len(tasks) :
    /\ Ignorable(events[k]) <=> tasks[k].pc = "ignored"
    /\ Ignorable(events[k]) => \A n \in 1..Len(log) : log[n].event # k
    /\ tasks[k].pc = "failed" <=>
         \E n \in 1..Len(log) : log[n].event = k /\ log[n].stream = "error"

\* a step that sets an event aside writes no file and raises no event; a
\* failure of the read or of parse sets the event aside; an event set aside
\* stays so; a declaration file changes only when an invocation that has its
\* text completes its write
C20_Step ==
  /\ \A k \in 1..(2 * MaxEvents) : FailsNow(k) => tasks'[k].pc = "failed"
  /\ \A k \in 1..(2 * MaxEvents) :
       SetAside(k) => fs' = fs /\ events' = events
  /\ \A k \in 1..Len(tasks) :
       tasks[k].pc \in {"ignored", "failed"} => tasks'[k] = tasks[k]
  /\ \A p \in DOMAIN fs' :
       (EndsWith(p, <<".","d",".","t","s">>) /\ (p \notin DOMAIN fs \/ fs'[p] # fs[p]))
         => \E k \in 1..Len(tasks) :
              /\ tasks[k].pc = "writing" /\ tasks'[k].pc = "updated"
              /\ ~Ignorable(events[k])
              /\ p = <<"/","w","/">> \o events[k][1] \o <<".","d",".","t",
                                                          "s">>

(***************************************************************************)
(* C20: in watch mode, for any sequence of file-change events, an event with*)
(* no filename or with one that does not end in .mdt (the watcher's own     *)
(* <file>.mdt.d.ts writes included) triggers no generation; a failure of    *)
(* the read or of parse while one .mdt event is handled is caught, writes   *)
(* no .d.ts for that event, and later events are still handled: again and   *)
(* again every event raised so far has been ignored, updated or failed.     *)
(***************************************************************************)
C20_Watch ==
  /\ []C20_State
  /\ [][C20_Step]_vars
  /\ []<>(\A k \in 1..Len(events) : Handled(k))

\* an .mdt event has failed, a later .mdt event has been written, the event
\* of that write has been ignored, and so has an event without a filename
C20_Witness ==
  \E k, j, d, u \in 1..Len(tasks) :
    /\ k < j /\ j < d
    /\ tasks[k].pc = "failed"
    /\ tasks[j].pc = "updated"
    /\ events[d] = <<events[j][1] \o <<".","d",".","t","s">>>> /\ tasks[d].pc = "ignored"
    /\ events[u] = <<>> /\ tasks[u].pc = "ignored"

====
